---------------------------- MODULE Spec2Model ----------------------------
(***************************************************************************)
(* Model of autodl/utils/plot_alc.py: class PlotAlc, which validates a     *)
(* trace of (timestamp, score) observations, truncates it to the time      *)
(* budget, integrates the learning curve (ALC) and draws it with pyplot.   *)
(*                                                                         *)
(* State: the PlotAlc instance (`self`), pyplot's global state (the list   *)
(* of figures and the current figure), the trace the caller plots, and the *)
(* records of the latest call and of the one before it (arguments, locals, *)
(* outcome), with the number of calls made and of calls that returned.     *)
(*                                                                         *)
(* Scope: one PlotAlc instance that is the only user of pyplot, so the    *)
(* current figure is always the figure created last.  The caller plots one *)
(* trace, chosen at the start, with any start_time and time_budget per call.*)
(*                                                                         *)
(* Numbers.  Timestamps are integers (seconds, multiples of t0 = 60).      *)
(* Scores are integers in a fixed score unit.  Transformed times and the   *)
(* ALC are exact rationals [n, d] in lowest terms; log2 is read from a     *)
(* fixed-point table, so transform_time(0) = 0 and transform_time(T) = 1   *)
(* exactly, as for the real logarithm.                                     *)
(***************************************************************************)
EXTENDS Integers, Sequences, FiniteSets, TLC

VARIABLES self, figs, gcf, trace, last, prev, ncalls, nok

vars == <<self, figs, gcf, trace, last, prev, ncalls, nok>>

-----------------------------------------------------------------------------
(* Bounds of the model *)

MaxLen == 2
MaxCalls == 2

(* t0 of the default transform, plot_alc.py line 104 *)
T0 == 60

None == "None"

Times == {0, T0, 3 * T0}
StartTimes == {0, T0}
Budgets == {T0, 3 * T0}
Scores == {0, 1, 2}
Methods == {"step", "trapez", "bogus"}
Transforms == {None, "custom"}

SeqsUpTo(S, n) == UNION {[1..k -> S] : k \in 0..n}

-----------------------------------------------------------------------------
(* Exact rationals *)

RECURSIVE GCD(_, _)
GCD(a, b) == IF b = 0 THEN a ELSE GCD(b, a % b)

Abs(n) == IF n < 0 THEN -n ELSE n

Rat(n, d) ==
    LET g == GCD(Abs(n), d)
    IN  IF n = 0 THEN [n |-> 0, d |-> 1] ELSE [n |-> n \div g, d |-> d \div g]

Zero == Rat(0, 1)
One == Rat(1, 1)
RAdd(a, b) == Rat(a.n * b.d + b.n * a.d, a.d * b.d)
RSub(a, b) == Rat(a.n * b.d - b.n * a.d, a.d * b.d)
RScale(a, k) == Rat(a.n * k, a.d)
RHalf(a) == Rat(a.n, 2 * a.d)


-----------------------------------------------------------------------------
(* External numerical helpers *)

(* log2 in thousandths, for the arguments 1 + t/t0 that the model's times  *)
(* produce.                                                                *)
Log2Milli(n) ==
    CASE n = 1 -> 0
      [] n = 2 -> 1000
      [] n = 3 -> 1585
      [] n = 4 -> 2000
      [] n = 5 -> 2322
      [] n = 6 -> 2585
      [] n = 7 -> 2807
      [] n = 8 -> 3000

(* autodl.utils.util.transform_time: log(1 + t/t0) / log(1 + T/t0) *)
transform_time(t, T, t0) == Rat(Log2Milli(1 + t \div t0), Log2Milli(1 + T \div t0))

(* The caller's transform of a custom-transform plotter: linear time, the  *)
(* budget of the longest run mapped to 1.                                  *)
custom_transform(t) == Rat(t, 3 * T0)

(* autodl.auto_scoring.score.auc_step: sum of Y[i] * (X[i+1] - X[i]) *)
RECURSIVE auc_step_from(_, _, _)
auc_step_from(X, Y, i) ==
    IF i >= Len(X) THEN Zero
    ELSE RAdd(RScale(RSub(X[i + 1], X[i]), Y[i]), auc_step_from(X, Y, i + 1))

auc_step(X, Y) == auc_step_from(X, Y, 1)

(* sklearn.metrics.auc on a non-decreasing X: the trapezoidal rule *)
RECURSIVE auc_from(_, _, _)
auc_from(X, Y, i) ==
    IF i >= Len(X) THEN Zero
    ELSE RAdd(RHalf(RScale(RSub(X[i + 1], X[i]), Y[i] + Y[i + 1])), auc_from(X, Y, i + 1))

auc(X, Y) == auc_from(X, Y, 1)

-----------------------------------------------------------------------------
(* PlotAlc.check_conditions.  Indices are Python's (from 0); the result    *)
(* names the error raised, or None, and the index the message reports.     *)

NoError == [error |-> None, index |-> -1]

RECURSIVE check_loop_strict(_, _, _)
check_loop_strict(timestamps, start_time, i) ==
    LET le == Len(timestamps)
    IN  IF i >= le THEN NoError
        ELSE IF i < le - 1 /\ ~ (timestamps[i + 1] < timestamps[i + 2])
             THEN [error |-> "NonMonotonicTimestamps", index |-> i]
        ELSE IF timestamps[i + 1] < start_time
             THEN [error |-> "TimestampBeforeStart", index |-> i]
        ELSE check_loop_strict(timestamps, start_time, i + 1)

(* the loop of lines 63-70, from index i on *)
RECURSIVE check_loop(_, _, _)
check_loop(timestamps, start_time, i) ==
    LET le == Len(timestamps)
    IN  IF i >= le THEN NoError
        ELSE IF i < le - 1 /\ ~ (timestamps[i + 1] <= timestamps[i + 2])
             THEN [error |-> "NonMonotonicTimestamps", index |-> i]
        ELSE IF timestamps[i + 1] < start_time
             THEN [error |-> "TimestampBeforeStart", index |-> i]
        ELSE check_loop(timestamps, start_time, i + 1)

check_conditions(timestamps, scores, start_time) ==
    IF ~ (Len(timestamps) = Len(scores))
    THEN [error |-> "LengthMismatch", index |-> -1]
    ELSE check_loop(timestamps, start_time, 0)

-----------------------------------------------------------------------------
(* Truncation, lines 98-102 *)

within_budget_strict(timestamps, limit) == SelectSeq(timestamps, LAMBDA t : t < limit)

within_budget(timestamps, limit) == SelectSeq(timestamps, LAMBDA t : t <= limit)

truncated_scores(scores, n, le) == IF n < le THEN SubSeq(scores, 1, n) ELSE scores

-----------------------------------------------------------------------------
(* pyplot state: figs[f] is figure number f, gcf the current figure *)

NoKw == [k \in {} |-> None]
NoTitle == [shown |-> FALSE, task |-> None]
NoLabel == [kind |-> None, T |-> 0, t0 |-> 0]

BlankFigure ==
    [axes |-> 0, title |-> NoTitle, xlabel |-> NoLabel, ticklabels |-> <<>>,
     artists |-> <<>>, legend |-> FALSE]

(* plt.subplots(): a new figure with one empty axes *)
subplots_figure == [BlankFigure EXCEPT !.axes = 1]

plt_clf_nothing(fs, cur) == fs

(* plt.clf(), line 125: clears the current figure *)
plt_clf(fs, cur) == [fs EXCEPT ![cur] = BlankFigure]

(* line 126: self.fig is None or len(self.fig.axes) == 0 *)
needs_new_axes(s, fs) == s.fig = 0 \/ fs[s.fig].axes = 0

(* line 138: the real-second marks of the secondary axis *)
ticks(time_budget) ==
    <<10, 60, 300, 600, 1200>> \o
    [k \in 1..(time_budget \div 1800) |-> 1800 * k]

(* lines 103-112: the x axis label; the local `transform` is bound only in *)
(* the first branch                                                         *)
xlabel_of(s, time_budget) ==
    IF s.transform = None
    THEN [kind |-> "formula", T |-> time_budget, t0 |-> T0]
    ELSE [kind |-> "generic", T |-> 0, t0 |-> 0]

(* lines 127-137: the fresh figure with its main and twin axes, before the *)
(* ticks of the twin axes are set                                           *)
new_figure(s, time_budget) ==
    [BlankFigure EXCEPT
        !.axes = 2,
        !.title = IF s.show_title THEN [shown |-> TRUE, task |-> s.task_name] ELSE NoTitle,
        !.xlabel = xlabel_of(s, time_budget)]

(* lines 163-168: the style of the main curve *)
main_kwargs(kw, label) ==
    LET m  == IF "marker" \in DOMAIN kw THEN kw ELSE ("marker" :> "o") @@ kw
        ms == IF "markersize" \in DOMAIN m THEN m ELSE ("markersize" :> 3) @@ m
    IN  IF "label" \in DOMAIN ms THEN ms ELSE ("label" :> label) @@ ms

(* lines 177-180: the style of the dashed connector, written back to       *)
(* self.kwargs                                                              *)
dashed_kwargs(kw) ==
    LET d == ("linestyle" :> "--") @@ ("linewidth" :> 1) @@ ("marker" :> None) @@ kw
    IN  [k \in DOMAIN d \ {"label"} |-> d[k]]

alc_of_swapped(method, X, Y) == IF method = "step" THEN auc(X, Y) ELSE auc_step(X, Y)

alc_of_observed(method, X, Y) ==
    IF method = "step" THEN auc_step(SubSeq(X, 1, Len(X) - 1), SubSeq(Y, 1, Len(Y) - 1))
    ELSE auc(SubSeq(X, 1, Len(X) - 1), SubSeq(Y, 1, Len(Y) - 1))

(* lines 142-157: auc_func(X, Y) for a recognised method *)
alc_of(method, X, Y) == IF method = "step" THEN auc_step(X, Y) ELSE auc(X, Y)

-----------------------------------------------------------------------------
(* PlotAlc.__init__ and init_plot: the state after construction *)

UserLabel == [text |-> "mine", alc |-> Zero]
KwChoices == {NoKw, [marker |-> "x", label |-> UserLabel]}

NoCall ==
    [start_time |-> 0, time_budget |-> 0, status |-> "none", index |-> -1,
     warning |-> -1, timestamps |-> <<>>, scores |-> <<>>, X |-> <<>>, Y |-> <<>>,
     alc |-> Zero, fig |-> 0, fresh |-> FALSE]

Init ==
    /\ \E m \in Methods, tr \in Transforms, cf \in BOOLEAN, kw \in KwChoices :
          self = [method |-> m, transform |-> tr, task_name |-> None,
                  area_color |-> "cyan", fill_area |-> TRUE, model_name |-> None,
                  clear_figure |-> cf, fig |-> 1, show_final_score |-> TRUE,
                  show_title |-> TRUE, kwargs |-> kw, cur_frame |-> 0, ax |-> 1]
    /\ figs = <<subplots_figure>>
    /\ gcf = 1
    /\ \E ts \in SeqsUpTo(Times, MaxLen), sc \in SeqsUpTo(Scores, MaxLen) :
          trace = [timestamps |-> ts, scores |-> sc]
    /\ last = NoCall
    /\ prev = NoCall
    /\ ncalls = 0
    /\ nok = 0

-----------------------------------------------------------------------------
(* PlotAlc.plot_learning_curve(timestamps, scores, start_time, time_budget) *)
(* on the caller's trace.  Result: the instance, pyplot's state and the     *)
(* record of the call, at the return or at the raise.                       *)

plot_learning_curve(start_time, time_budget) ==
    LET timestamps0 == trace.timestamps
        scores0     == trace.scores
        le          == Len(timestamps0)
        chk         == check_conditions(timestamps0, scores0, start_time)
        call0       == [NoCall EXCEPT !.start_time = start_time,
                                      !.time_budget = time_budget,
                                      !.timestamps = timestamps0,
                                      !.scores = scores0]
        (* lines 98-102 *)
        timestamps  == within_budget(timestamps0, time_budget + start_time)
        scores      == truncated_scores(scores0, Len(timestamps), le)
        call1       == [call0 EXCEPT !.timestamps = timestamps, !.scores = scores,
                                     !.warning = IF Len(timestamps) < le
                                                 THEN Len(timestamps) ELSE -1]
        bound       == self.transform = None
        (* lines 116-122 *)
        X1 == <<Zero>> \o [i \in 1..Len(timestamps) |->
                             transform_time(timestamps[i] - start_time, time_budget, T0)]
        Y1 == <<0>> \o scores
        call2       == [call1 EXCEPT !.X = X1, !.Y = Y1]
        (* lines 124-141 *)
        figs1       == IF self.clear_figure THEN plt_clf(figs, gcf) ELSE figs
        fresh       == needs_new_axes(self, figs1)
        fig         == Len(figs1) + 1
        figs2       == Append(figs1, new_figure(self, time_budget))
        figs3       == [figs2 EXCEPT ![fig].ticklabels = ticks(time_budget)]
        (* lines 153-182 *)
        X   == Append(X1, One)
        Y   == Append(Y1, Y1[Len(Y1)])
        alc == alc_of(self.method, X, Y)
        label == [text |-> self.model_name, alc |-> alc]
        kw1 == main_kwargs(self.kwargs, label)
        kw2 == dashed_kwargs(kw1)
        n   == Len(X)
        curve == [kind |-> "curve", x |-> SubSeq(X, 1, n - 1), y |-> SubSeq(Y, 1, n - 1),
                  opt |-> <<IF self.method = "step" THEN "steps-post" ELSE "default">>,
                  kw |-> kw1]
        fill  == [kind |-> "fill", x |-> X, y |-> Y,
                  opt |-> <<self.area_color, IF self.method = "step" THEN "post" ELSE None>>,
                  kw |-> NoKw]
        text  == [kind |-> "text", x |-> <<X[n]>>, y |-> <<Y[n]>>, opt |-> <<>>, kw |-> NoKw]
        dash  == [kind |-> "connector", x |-> SubSeq(X, n - 1, n), y |-> SubSeq(Y, n - 1, n),
                  opt |-> <<>>, kw |-> kw2]
        drawn == <<curve>> \o (IF self.fill_area THEN <<fill>> ELSE <<>>)
                           \o (IF self.show_final_score THEN <<text>> ELSE <<>>)
                           \o <<dash>>
        figs4 == [figs3 EXCEPT ![fig].artists = @ \o drawn, ![fig].legend = TRUE]
    IN  IF chk.error # None
        THEN (* line 96 raises *)
             [self |-> self, figs |-> figs, gcf |-> gcf,
              last |-> [call0 EXCEPT !.status = chk.error, !.index = chk.index]]
        ELSE IF ~ bound /\ Len(timestamps) > 0
        THEN (* line 118: `transform` is not bound *)
             [self |-> self, figs |-> figs, gcf |-> gcf,
              last |-> [call1 EXCEPT !.status = "NameError"]]
        ELSE IF fresh /\ ~ bound
        THEN (* line 139: `transform` is not bound *)
             [self |-> self, figs |-> figs2, gcf |-> fig,
              last |-> [call2 EXCEPT !.status = "NameError", !.fresh = TRUE]]
        ELSE IF ~ fresh
        THEN (* line 141: `fig` is not bound *)
             [self |-> self, figs |-> figs1, gcf |-> gcf,
              last |-> [call2 EXCEPT !.status = "UnboundLocalError"]]
        ELSE IF self.method \notin {"step", "trapez"}
        THEN (* line 151 raises *)
             [self |-> self, figs |-> figs3, gcf |-> fig,
              last |-> [call2 EXCEPT !.status = "InvalidMethod", !.fresh = TRUE]]
        ELSE (* line 183 returns alc, fig *)
             [self |-> [self EXCEPT !.kwargs = kw2], figs |-> figs4, gcf |-> fig,
              last |-> [call2 EXCEPT !.status = "ok", !.fresh = TRUE, !.X = X, !.Y = Y,
                                     !.alc = alc, !.fig = fig]]

PlotLearningCurve(start_time, time_budget) ==
    /\ ncalls < MaxCalls
    /\ LET r == plot_learning_curve(start_time, time_budget)
       IN  /\ self' = r.self
           /\ figs' = r.figs
           /\ gcf' = r.gcf
           /\ last' = r.last
           /\ prev' = last
           /\ nok' = IF r.last.status = "ok" THEN nok + 1 ELSE nok
    /\ ncalls' = ncalls + 1
    /\ UNCHANGED trace

Next == \E start_time \in StartTimes, time_budget \in Budgets :
            PlotLearningCurve(start_time, time_budget)

Spec == Init /\ [][Next]_vars

-----------------------------------------------------------------------------
(* Vocabulary of the properties, stated on the caller's trace and on the   *)
(* record of the latest call.  Positions are those of the sequences (from  *)
(* 1); the indices the program reports are Python's (from 0).              *)

Called == last.status # "none"
ValidationErrors == {"LengthMismatch", "NonMonotonicTimestamps", "TimestampBeforeStart"}
FourErrors == ValidationErrors \cup {"InvalidMethod"}
ValidMethod == self.method \in {"step", "trapez"}
Limit == last.start_time + last.time_budget

SameLength == Len(trace.timestamps) = Len(trace.scores)
Decreasing(i) == i + 1 \in DOMAIN trace.timestamps /\ trace.timestamps[i] > trace.timestamps[i + 1]
Early(i) == trace.timestamps[i] < last.start_time
OrderViolated == \E i \in DOMAIN trace.timestamps : Decreasing(i) \/ Early(i)
ValidInput == SameLength /\ ~ OrderViolated
Validated == Called /\ last.status \notin ValidationErrors

Late(i) == trace.timestamps[i] > Limit
SomeLate == \E i \in DOMAIN trace.timestamps : Late(i)
Pairs == [i \in DOMAIN trace.timestamps |-> <<trace.timestamps[i], trace.scores[i]>>]
RetainedPairs == [i \in DOMAIN last.timestamps |-> <<last.timestamps[i], last.scores[i]>>]

(* The curve of the retained pairs under the default transform, padded     *)
(* with the origin and with the last score at X = 1                        *)
PaddedX ==
    <<Zero>> \o
    [i \in DOMAIN last.timestamps |->
        transform_time(last.timestamps[i] - last.start_time, last.time_budget, T0)] \o
    <<One>>
PaddedY ==
    <<0>> \o last.scores \o
    <<IF last.scores = <<>> THEN 0 ELSE last.scores[Len(last.scores)]>>

(* The area of the last segment of the curve, from the last observed point *)
(* to the synthetic point at X = 1                                          *)
Extension ==
    LET n == Len(last.X)
    IN  RScale(RSub(last.X[n], last.X[n - 1]), last.Y[n - 1])

-----------------------------------------------------------------------------
(* C1: a call that fails with one of the four errors leaves the chart state *)
(* (figures, current figure) as it was, and when the error is InvalidMethod *)
(* no data processing has happened: no truncation, no truncation warning.   *)
C1_FailBeforeSideEffect ==
    [][(ncalls' = ncalls + 1 /\ last'.status \in FourErrors) =>
          /\ figs' = figs
          /\ gcf' = gcf
          /\ last'.status = "InvalidMethod" =>
                /\ last'.warning = -1
                /\ last'.timestamps = trace.timestamps]_vars

-----------------------------------------------------------------------------
-----------------------------------------------------------------------------
-----------------------------------------------------------------------------
(* C4: a plotter constructed with a custom transform applies it to each     *)
(* retained t - start_time to build X, and returns (alc, chart handle) on   *)
(* valid input as the default transform does.                               *)
C4_CustomTransformApplied ==
    (Called /\ self.transform # None /\ ValidInput /\ ValidMethod /\ self.clear_figure) =>
      /\ last.status = "ok"
      /\ last.fig # 0
      /\ last.X = <<Zero>> \o
                  [i \in DOMAIN last.timestamps |->
                      custom_transform(last.timestamps[i] - last.start_time)] \o
                  <<One>>

-----------------------------------------------------------------------------
(* C5, as stated: the ALC returned is the area, under the configured rule,  *)
(* of the origin and the observed points only; the flat extension to X = 1  *)
(* contributes nothing.                                                     *)
C5_ExtensionExcluded ==
    last.status = "ok" => last.alc = alc_of_observed(self.method, last.X, last.Y)

(* C5, amended: the ALC returned is the area, under the configured rule, of *)
(* the whole curve, the synthetic point at X = 1 included: the area of the  *)
(* origin and the observed points plus last score * (1 - last observed X).  *)
C5_ExtensionIncluded ==
    last.status = "ok" =>
      /\ last.X[Len(last.X)] = One
      /\ last.Y[Len(last.Y)] = last.Y[Len(last.Y) - 1]
      /\ last.alc = RAdd(alc_of_observed(self.method, last.X, last.Y), Extension)

(* a returned call whose flat extension has a positive area *)
C5_Witness ==
    /\ last.status = "ok"
    /\ Extension # Zero
    /\ Len(last.X) > 2

-----------------------------------------------------------------------------
(* The case of C6: a returned call on a non-empty trace within the budget   *)
(* whose scores all equal c                                                 *)
ConstantTrace(c) ==
    /\ last.status = "ok"
    /\ trace.timestamps # <<>>
    /\ ~ SomeLate
    /\ \A i \in DOMAIN trace.scores : trace.scores[i] = c

(* C6, as stated: a valid non-empty trace with constant score c has ALC = c *)
(* under step and under trapez, whatever its timestamps are.                *)
C6_ConstantGivesC ==
    \A c \in Scores : ConstantTrace(c) => last.alc = Rat(c, 1)

(* C6, amended: with x1 the transformed first timestamp, a constant trace   *)
(* has ALC = c * (1 - x1) under step and c * (1 - x1 / 2) under trapez; it  *)
(* is c when the first timestamp is start_time.                             *)
C6_ConstantFromFirstPoint ==
    \A c \in Scores : ConstantTrace(c) =>
      LET x1 == last.X[2]
      IN  /\ self.method = "step" => last.alc = RScale(RSub(One, x1), c)
          /\ self.method = "trapez" => last.alc = RScale(RSub(One, RHalf(x1)), c)
          /\ trace.timestamps[1] = last.start_time => last.alc = Rat(c, 1)

(* a constant positive trace of two observations starting after start_time *)
C6_Witness ==
    /\ ConstantTrace(2)
    /\ Len(trace.timestamps) = 2
    /\ trace.timestamps[1] > last.start_time
    /\ trace.timestamps[2] > trace.timestamps[1]

-----------------------------------------------------------------------------
(* C7: on a plotter with clear_figure, a call that repeats the arguments of *)
(* the call before it ends as that call did, with the same ALC; and with    *)
(* the default transform and a recognised method every call on valid input  *)
(* returns, whatever calls came before.                                     *)
C7_RepeatedCallSameALC ==
    (Called /\ self.clear_figure) =>
      /\ (ValidInput /\ ValidMethod /\ self.transform = None) => last.status = "ok"
      /\ (prev.status # "none" /\ prev.start_time = last.start_time
                               /\ prev.time_budget = last.time_budget) =>
            /\ last.status = prev.status
            /\ last.alc = prev.alc

(* two calls in a row with the same arguments, both returned *)
C7_Witness ==
    /\ self.clear_figure
    /\ prev.status = "ok"
    /\ last.status = "ok"
    /\ prev.start_time = last.start_time
    /\ prev.time_budget = last.time_budget
    /\ last.alc # Zero
    /\ nok >= 2

-----------------------------------------------------------------------------
(* C8: the frame counter is 0 after construction and equals the number of   *)
(* plot_learning_curve calls that returned.                                 *)
C8_FrameCounterCountsCalls == self.cur_frame = nok

-----------------------------------------------------------------------------
(* C9: plot_learning_curve leaves every configuration value of the plotter, *)
(* the pass-through style options included, as the constructor set it.      *)
C9_ConfigurationFrozen ==
    [][/\ self'.kwargs = self.kwargs
       /\ self'.method = self.method
       /\ self'.transform = self.transform
       /\ self'.clear_figure = self.clear_figure]_vars

-----------------------------------------------------------------------------
(* C10: on valid input with a recognised method the call completes and      *)
(* returns the handle of the chart it drew onto, on a fresh figure when     *)
(* clear_figure is set or no axes exist and on the existing axes otherwise, *)
(* the first call of a plotter with clear_figure disabled included.         *)
C10_CallCompletes ==
    (Called /\ ValidInput /\ ValidMethod /\ self.transform = None) =>
      /\ last.status = "ok"
      /\ last.fig \in DOMAIN figs
      /\ figs[last.fig].artists # <<>>

=============================================================================
